---- MODULE Spec2Model ----
(***************************************************************************)
(* EvictingMap (nativelink-util/src/evicting_map.rs): an LRU map guarded   *)
(* by one async mutex, with byte / age / count eviction and the            *)
(* touch()/unref() protocol of LenEntry.                                   *)
(*                                                                         *)
(* Tasks call the public operations concurrently.  A task's steps are cut  *)
(* at the await points of the code: lock().await, touch().await and        *)
(* unref().await.  The code between two await points runs as one step (Run *)
(* below).  A call starts when it gets the lock; insert() has read the     *)
(* clock before that.                                                      *)
(* A touch() that returns true changes nothing shared and is taken in the  *)
(* step that starts it; one that returns false is in flight, or waiting    *)
(* for the lock, until touch_or_remove gets the lock.                      *)
(***************************************************************************)
EXTENDS Integers, Sequences, FiniteSets, TLC

\* ------------------------------------------------------------------ bounds
MaxHandles == 2      \* entry handles ever created (inserted, or built by restore_lru)
MaxClock == 5        \* how far the wall clock runs, in ticks
MaxDigests == 2      \* length of the key list of one sizes_for_keys call
MaxBatch == 2        \* pairs of one insert_many call
MaxFailing == 1      \* touches of one sizes_for_keys call that return false
TicksPerSec == 2     \* SystemTime is finer than the whole seconds of as_secs()

Tasks == {"t1", "t2"}
NoTask == "none"
NoKey == "-"
NoHandle == [id |-> 0, len |-> 0]  \* Option<T>::None
NoItem == [key |-> NoKey, seconds_since_anchor |-> 0, data |-> NoHandle,
           origin |-> "-", used |-> FALSE]
NoIndex == [data |-> <<>>, anchor_time |-> -1]  \* no snapshot is held
None == -1                         \* Option<usize>::None
Stale == 7                         \* Some(7): what a results slot holds before a call

\* EvictionPolicy values the map is constructed with (0 = limit disabled).
BytesPolicy == [max_bytes |-> 100, evict_bytes |-> 20, max_seconds |-> 0, max_count |-> 0]
CountPolicy == [max_bytes |-> 0, evict_bytes |-> 0, max_seconds |-> 0, max_count |-> 2]
TightPolicy == [max_bytes |-> 0, evict_bytes |-> 0, max_seconds |-> 0, max_count |-> 1]
AgePolicy == [max_bytes |-> 0, evict_bytes |-> 0, max_seconds |-> 1, max_count |-> 0]
MixedPolicy == [max_bytes |-> 100, evict_bytes |-> 50, max_seconds |-> 0, max_count |-> 1]
WidePolicy == [max_bytes |-> 100, evict_bytes |-> 100, max_seconds |-> 0, max_count |-> 0]
NoLimits == [max_bytes |-> 0, evict_bytes |-> 0, max_seconds |-> 0, max_count |-> 0]

\* ---------------------------------------------------------------- variables
VARIABLES
    cfg,              \* max_bytes, evict_bytes, max_seconds, max_count
    wall,             \* the system clock, in ticks
    anchor_time,      \* EvictingMap::anchor_time, in ticks
    lru,              \* State::lru, most recently used first
    sum_store_size,   \* State::sum_store_size (u64, see U64Ge)
    metrics,          \* the counters of State
    unrefs,           \* per handle created so far: how often unref() was invoked
    lock,             \* the task holding the Mutex<State>, or NoTask
    task,             \* per task: the running call and its locals
    index,            \* the SerializedLRU build_lru_index returned, until the next call
    overflow_checks   \* the build: "on", "off", or "either" while no overflow showed which

vars == <<cfg, wall, anchor_time, lru, sum_store_size, metrics, unrefs, lock, task, index,
          overflow_checks>>

\* ------------------------------------------------------------------ helpers

\* A u64 / usize value v is kept as the integer s with v = s mod 2^64 and
\* |s| small: a negative s stands for the wrapped value 2^64 + s.
U64Ge(s, m) == s < 0 \/ s >= m
U64Gt(s, m) == s < 0 \/ s > m
\* `a - b` on unsigned a overflows when b is larger than the value of a;
\* `a + b` overflows when a is a wrapped value and the sum passes 2^64.
\* An overflow panics (overflow checks on) or wraps (off): both builds exist,
\* and the first overflow of a run shows which one runs.
SubOverflows(a, b) == a >= 0 /\ a < b
AddOverflows(a, b) == a < 0 /\ a + b >= 0

\* position of key k in the lru, 0 when absent
IndexOf(l, k) == IF \E i \in DOMAIN l : l[i].key = k
                 THEN CHOOSE i \in DOMAIN l : l[i].key = k
                 ELSE 0

Without(l, i) == SubSeq(l, 1, i - 1) \o SubSeq(l, i + 1, Len(l))

\* LruCache::get / get_mut: a hit moves the entry to the most-recent end.
\* (`used` is history: the entry was promoted by a lookup since it was put.)
Promote(l, i) == <<[l[i] EXCEPT !.used = (cfg.max_seconds # 0)]>> \o Without(l, i)

\* LruCache::put: insert or replace, always most recent
Put(l, e) == LET i == IndexOf(l, e.key)
             IN  <<e>> \o (IF i = 0 THEN l ELSE Without(l, i))

\* LruCache::peek_lru / pop_lru act on the least-recent end
PeekLru(l) == l[Len(l)]
PopLru(l) == SubSeq(l, 1, Len(l) - 1)

\* InstantWrapper for SystemTime
from_secs(secs) == secs * TicksPerSec
unix_timestamp(instant) == instant \div TicksPerSec
elapsed(anchor) == (wall - anchor) \div TicksPerSec
\* `self.anchor_time.elapsed().as_secs()`
elapsed_secs == elapsed(anchor_time)

\* ------------------------------------------------------------ configuration
\* EvictingMap::new copies the policy into the map
max_bytes == cfg.max_bytes
evict_bytes == cfg.evict_bytes
max_seconds == cfg.max_seconds
max_count == cfg.max_count

\* What callers pass in.  The count policy is exercised with more keys than
\* max_count, the byte policy with handles of different sizes, the age policy
\* with a clock that runs.
FewKeys == {"A", "B"}
MoreKeys == {"A", "B", "C"}
Keys == IF max_count # 0 THEN MoreKeys ELSE FewKeys
Lens == IF max_bytes # 0 THEN {20, 50, 60, 90} ELSE {50}
Ages == IF max_seconds # 0 THEN {0, 2} ELSE {0}
\* the count policy needs max_count more handles to overfill the map
HandleLimit == MaxHandles + max_count
ClockLimit == IF max_seconds # 0 THEN MaxClock ELSE 1
\* The map is constructed at Born; under the age policy that is not on a whole second.
Born == IF max_seconds # 0 THEN 1 ELSE 0

\* ------------------------------------------------------------- task records
\* pc: where the call stands; ret: where State::remove returns to; unref: the
\* item whose unref() is in flight; at: the pair of `items` the insert loop
\* is at; the rest are the arguments, locals and
\* results of the call.  Kept for the record: was (the lru the call found),
\* held (the snapshot the caller held when it called),
\* peak (sum_store_size right after the last `+=`), found (the entry a lookup
\* hit, as it was before the hit).
IdleTask ==
    [pc |-> "idle", op |-> "none", key |-> NoKey, items |-> <<>>, at |-> 0, age |-> 0,
     replaced |-> <<>>, budget |-> 0, ret |-> "none", unref |-> NoItem,
     data |-> NoHandle, digests |-> <<>>, results |-> <<>>, touch |-> <<>>,
     rm |-> <<>>, guard |-> 0, ret_bool |-> FALSE, out |-> NoHandle,
     snap |-> NoIndex, builder |-> <<>>, held |-> NoIndex, was |-> <<>>, peak |-> 0,
     found |-> NoItem, cond |-> "-"]

\* the call unwound with a panic; its locals are gone
Panicked(tk) == [IdleTask EXCEPT !.pc = "panicked", !.op = tk.op]

\* the call returned; what it was asked and what it returned stay readable
\* until the caller moves on
Done(tk) == [tk EXCEPT !.pc = "done", !.at = 0, !.budget = 0, !.ret = "none",
                       !.unref = NoItem, !.rm = <<>>, !.guard = 0]

Idle(t) == task[t].pc = "idle"
\* a finished call hands its result (or its panic) to the caller before
\* anything else happens
Returning == \E t \in Tasks : task[t].pc \in {"done", "panicked"}
\* Where no age limit is set the clock is run to its end before the first
\* call: what the map does then does not depend on when it is called.
ClockSet == max_seconds # 0 \/ wall = ClockLimit
CanCall(t) == Idle(t) /\ ~Returning /\ ClockSet

\* The map as the running task t sees and changes it under the lock: m.tk is
\* the task's own record, m.lock whether it (still) holds the lock.
Cur(t) == [t |-> t, tk |-> task[t], lock |-> lock, anchor_time |-> anchor_time,
           lru |-> lru, sum_store_size |-> sum_store_size, metrics |-> metrics,
           unrefs |-> unrefs, index |-> index, overflow_checks |-> overflow_checks]

\* a call starts: whoever held a snapshot has restored it by now or let it go
Enter(t, tk) == [Cur(t) EXCEPT !.tk = tk, !.index = NoIndex]
\* (a fault: the call goes on without the lock)
NotLocked(t, tk) == Enter(t, tk)
\* ... and the call has the lock
Locked(t, tk) == [Enter(t, tk) EXCEPT !.lock = t]

Commit(m) ==
    /\ task' = [task EXCEPT ![m.t] = m.tk]
    /\ lock' = m.lock
    /\ anchor_time' = m.anchor_time
    /\ lru' = m.lru
    /\ sum_store_size' = m.sum_store_size
    /\ metrics' = m.metrics
    /\ unrefs' = m.unrefs
    /\ index' = m.index
    /\ overflow_checks' = m.overflow_checks

Release(m, tk) == [m EXCEPT !.tk = tk, !.lock = NoTask]

\* the builds the run so far is consistent with
Builds(known) == IF known = "either" THEN {"on", "off"} ELSE {known}

\* an arithmetic overflow under the lock: the call panics and unwinds, which
\* drops the guard (checks on), or goes on with the wrapped value (checks off)
Overflow(m, wrapped) ==
    {IF b = "on" THEN Release([m EXCEPT !.overflow_checks = b], Panicked(m.tk))
     ELSE [wrapped EXCEPT !.overflow_checks = b] : b \in Builds(m.overflow_checks)}

\* ------------------------------------------------------------ Eviction policy
should_evict(self, lru_len, peek_entry, sum_size, max_bytes_arg) ==
    LET is_over_size == max_bytes_arg # 0 /\ U64Ge(sum_size, max_bytes_arg)
        evict_older_than_seconds == elapsed(self.anchor_time) - max_seconds
        old_item_exists ==
            max_seconds # 0 /\ peek_entry.seconds_since_anchor < evict_older_than_seconds
        is_over_count == max_count # 0 /\ U64Gt(lru_len, max_count)
    IN  is_over_size \/ old_item_exists \/ is_over_count

\* (a fault: State::remove that leaves sum_store_size as it is)
StateRemoveKeepsSum(m, eviction_item, replaced, ret) ==
    LET n == eviction_item.data.len
    IN  {[m EXCEPT
            !.metrics = IF replaced
                        THEN [@ EXCEPT !.replaced_items = @ + 1, !.replaced_bytes = @ + n]
                        ELSE [@ EXCEPT !.evicted_items = @ + 1, !.evicted_bytes = @ + n],
            !.unrefs[eviction_item.data.id] = @ + 1,
            !.tk = [@ EXCEPT !.pc = "unref", !.unref = eviction_item, !.ret = ret]]}

\* State::remove(eviction_item, replaced); the task goes on at `ret` once the
\* unref() it awaits has returned.  The results: a panic on overflow, before
\* anything is done, or (wrapping on overflow) the removal with unref() in flight.
StateRemove(m, eviction_item, replaced, ret) ==
    LET n == eviction_item.data.len
        removed == [m EXCEPT
            !.sum_store_size = @ - n,
            !.metrics = IF replaced
                        THEN [@ EXCEPT !.replaced_items = @ + 1, !.replaced_bytes = @ + n]
                        ELSE [@ EXCEPT !.evicted_items = @ + 1, !.evicted_bytes = @ + n],
            !.unrefs[eviction_item.data.id] = @ + 1,
            !.tk = [@ EXCEPT !.pc = "unref", !.unref = eviction_item, !.ret = ret]]
    IN  IF SubOverflows(m.sum_store_size, n) THEN Overflow(m, removed) ELSE {removed}

\* --------------------------------------------------- what follows evict_items
\* inner_insert_many: the pair is in, its eviction pass is over; next pair or return
InsertNext(m) ==
    IF m.tk.at = Len(m.tk.items) THEN {Release(m, Done(m.tk))}
    ELSE {[m EXCEPT !.tk.pc = "ins_put", !.tk.at = @ + 1]}

\* (a fault: a lookup that leaves the entry where it is in the recency order)
GetLookupInPlace(m) ==
    LET i == IndexOf(m.lru, m.tk.key)
        data == m.lru[i].data
        found == [m EXCEPT !.tk.data = data, !.tk.found = m.lru[i]]
    IN  IF i = 0 THEN {Release(m, Done(m.tk))}
        ELSE {Release(found, Done([found.tk EXCEPT !.out = data])),
              Release(found, [found.tk EXCEPT !.pc = "tor_lock", !.budget = 0])}

\* get: `state.lru.get_mut(digest)?`, clone the handle, drop the guard, and
\* touch_or_remove up to the result of `data.touch().await`
GetLookup(m) ==
    LET i == IndexOf(m.lru, m.tk.key)
        data == m.lru[i].data
        found == [m EXCEPT !.lru = Promote(m.lru, i), !.tk.data = data,
                           !.tk.found = m.lru[i]]
    IN  IF i = 0 THEN {Release(m, Done(m.tk))}
        ELSE {Release(found, Done([found.tk EXCEPT !.out = data])),
              Release(found, [found.tk EXCEPT !.pc = "tor_lock", !.budget = 0])}

\* inner_remove: `state.lru.pop(digest)` and State::remove(entry, false)
RemovePop(m) ==
    LET i == IndexOf(m.lru, m.tk.key)
    IN  IF i = 0 THEN {Release(m, Done([m.tk EXCEPT !.ret_bool = FALSE]))}
        ELSE StateRemove([m EXCEPT !.lru = Without(m.lru, i)], m.lru[i], FALSE, "ret_true")

\* build_lru_index: every (digest, seconds_since_anchor) in iteration order
SerializeLru(l) ==
    [i \in 1..Len(l) |-> [key |-> l[i].key, seconds_since_anchor |-> l[i].seconds_since_anchor]]

BuildEmit(m) ==
    {Release([m EXCEPT !.index = [data |-> SerializeLru(m.lru),
                                  anchor_time |-> unix_timestamp(m.anchor_time)]],
             Done(m.tk))}

\* the statement after `self.evict_items(state).await` in the running call
AfterEvict(m) ==
    CASE m.tk.op \in {"insert", "insert_with_time", "insert_many"} -> InsertNext(m)
      [] m.tk.op = "get" -> GetLookup(m)
      [] m.tk.op \in {"remove", "remove_if"} -> RemovePop(m)
      [] m.tk.op = "build_lru_index" -> BuildEmit(m)
      [] m.tk.op = "restore_lru" -> {Release(m, Done(m.tk))}

\* -------------------------------------------------------------- evict_items
\* (a fault: a pass that never lowers its budget)
PassBudgetFlat(m) == max_bytes

\* the budget of this pass: lowered by evict_bytes when the unshrunk one is breached
PassBudget(m) ==
    IF max_bytes # 0 /\ evict_bytes # 0
       /\ should_evict(m, Len(m.lru), PeekLru(m.lru), m.sum_store_size, max_bytes)
    THEN IF max_bytes > evict_bytes THEN max_bytes - evict_bytes ELSE 0
    ELSE max_bytes

\* evict_items up to its loop: peek, or return when the map is empty
evict_items(m) ==
    IF m.lru = <<>> THEN AfterEvict(m)
    ELSE {[m EXCEPT !.tk.pc = "evict_loop", !.tk.budget = PassBudget(m)]}

\* one turn of the loop of evict_items: pop_lru and State::remove, or leave
evict_items_loop(m) ==
    IF m.lru # <<>>
       /\ should_evict(m, Len(m.lru), PeekLru(m.lru), m.sum_store_size, m.tk.budget)
    THEN StateRemove([m EXCEPT !.lru = PopLru(m.lru)], PeekLru(m.lru), FALSE, "evict")
    ELSE AfterEvict(m)

\* ------------------------------------------------------------------- insert
\* inner_insert_many after the put (and the unref of a replaced item):
\* `state.sum_store_size += new_item_size`, then evict_items
InsAdded(m) ==
    LET n == m.tk.items[m.tk.at].h.len
        added == [m EXCEPT !.sum_store_size = @ + n, !.tk.pc = "evict_begin",
                           !.tk.peak = m.sum_store_size + n]
    IN  IF AddOverflows(m.sum_store_size, n) THEN Overflow(m, added) ELSE {added}

\* where the age of a stored item came from: the clock at the time of the
\* put ("exact"), an earlier reading of the clock ("late"), or the caller
Origin(tk) == IF max_seconds = 0 THEN "-"
              ELSE IF tk.op = "insert_with_time" THEN "explicit"
              ELSE IF tk.age = elapsed_secs THEN "exact" ELSE "late"

\* inner_insert_many: `state.lru.put(digest, eviction_item)`
inner_insert_many(m) ==
    LET item == m.tk.items[m.tk.at]
        e == [key |-> item.key, seconds_since_anchor |-> m.tk.age, data |-> item.h,
              origin |-> Origin(m.tk), used |-> FALSE]
        i == IndexOf(m.lru, item.key)
        put == [m EXCEPT !.lru = Put(m.lru, e)]
    IN  IF i # 0 THEN StateRemove(put, m.lru[i], TRUE, "ins_added")
        ELSE InsAdded(put)

\* ----------------------------------------------------------- sizes_for_keys
\* The closure of sizes_for_keys over digests[i..], with overflow checks on
\* or off.  acc: the lru (lookups promote), the local lru_len and
\* sum_store_size, remove_digests, to_touch_or_remove, whether a subtraction
\* overflowed and whether that panicked.
RECURSIVE Classify(_, _, _, _)
Classify(digests, i, acc, checks) ==
    IF i > Len(digests) \/ acc.panicked THEN acc
    ELSE
      LET j == IndexOf(acc.lru, digests[i])
          l2 == IF j = 0 THEN acc.lru ELSE Promote(acc.lru, j)
          skip == [data |-> NoHandle, st |-> "skip"]
      IN  IF j = 0
          THEN Classify(digests, i + 1,
                        [acc EXCEPT !.rm = Append(@, digests[i]),
                                    !.touch = Append(@, skip)], checks)
          ELSE IF should_evict([anchor_time |-> anchor_time], acc.lru_len, acc.lru[j],
                               acc.sum_store_size, max_bytes)
          THEN IF checks /\ (SubOverflows(acc.sum_store_size, acc.lru[j].data.len)
                             \/ SubOverflows(acc.lru_len, 1))
               THEN [acc EXCEPT !.lru = l2, !.overflowed = TRUE, !.panicked = TRUE]
               ELSE Classify(digests, i + 1,
                             [acc EXCEPT !.lru = l2,
                                         !.overflowed =
                                            @ \/ SubOverflows(acc.sum_store_size,
                                                              acc.lru[j].data.len)
                                              \/ SubOverflows(acc.lru_len, 1),
                                         !.sum_store_size = @ - acc.lru[j].data.len,
                                         !.lru_len = @ - 1,
                                         !.rm = Append(@, digests[i]),
                                         !.touch = Append(@, skip)], checks)
          ELSE Classify(digests, i + 1,
                        [acc EXCEPT !.lru = l2,
                                    !.touch = Append(@, [data |-> acc.lru[j].data,
                                                         st |-> "pending"])], checks)

\* the call is over when both halves of the join! are: the removal block has
\* dropped its guard and no touch future is left
SizesJoined(m) ==
    IF m.tk.guard = -1 /\ \A i \in DOMAIN m.tk.touch : m.tk.touch[i].st # "wait"
    THEN [m EXCEPT !.tk = Done(m.tk)]
    ELSE [m EXCEPT !.tk.pc = "sfk_join"]

\* (a fault: a removal block that pops the least-recent entry for each digest)
SizesRemovePopsLru(m) ==
    LET j == IF IndexOf(m.lru, Head(m.tk.rm)) = 0 THEN 0 ELSE Len(m.lru)
    IN  IF m.tk.rm = <<>>
        THEN {SizesJoined([m EXCEPT !.tk.guard = -1, !.lock = NoTask])}
        ELSE IF j = 0 THEN {[m EXCEPT !.tk.rm = Tail(@)]}
        ELSE StateRemove([m EXCEPT !.lru = Without(m.lru, j), !.tk.rm = Tail(@)],
                         m.lru[j], FALSE, "sfk_rm")

\* (a fault: a removal block whose end does not drop the guard)
SizesRemoveKeepsGuard(m) ==
    LET j == IndexOf(m.lru, Head(m.tk.rm))
    IN  IF m.tk.rm = <<>>
        THEN {SizesJoined([m EXCEPT !.tk.guard = -1])}
        ELSE IF j = 0 THEN {[m EXCEPT !.tk.rm = Tail(@)]}
        ELSE StateRemove([m EXCEPT !.lru = Without(m.lru, j), !.tk.rm = Tail(@)],
                         m.lru[j], FALSE, "sfk_rm")

\* the removal block of the join!, which owns the guard taken at the start:
\* one turn of `for digest in remove_digests`, or its end, which drops the guard
sizes_remove(m) ==
    LET j == IndexOf(m.lru, Head(m.tk.rm))
    IN  IF m.tk.rm = <<>>
        THEN {SizesJoined([m EXCEPT !.tk.guard = -1, !.lock = NoTask])}
        ELSE IF j = 0 THEN {[m EXCEPT !.tk.rm = Tail(@)]}
        ELSE StateRemove([m EXCEPT !.lru = Without(m.lru, j), !.tk.rm = Tail(@)],
                         m.lru[j], FALSE, "sfk_rm")

\* ------------------------------------------------------------------- unref
\* `eviction_item.data.unref().await` has returned: the caller of State::remove goes on
AfterUnref(m) ==
    LET tk == [m.tk EXCEPT !.unref = NoItem, !.ret = "none"]
    IN  CASE m.tk.ret = "evict" -> {[m EXCEPT !.tk = [tk EXCEPT !.pc = "evict_loop"]]}
          [] m.tk.ret = "ins_added" ->
               InsAdded([m EXCEPT !.tk = [tk EXCEPT !.replaced = Append(@, m.tk.unref.data)]])
          [] m.tk.ret = "ret_true" -> {Release(m, Done([tk EXCEPT !.ret_bool = TRUE]))}
          [] m.tk.ret = "ret_none" -> {Release(m, Done(tk))}
          [] m.tk.ret = "sfk_rm" -> {[m EXCEPT !.tk = [tk EXCEPT !.pc = "sfk_rm"]]}
          [] m.tk.ret = "sfk_tor" ->
               {SizesJoined(Release(m, [tk EXCEPT !.guard = -1,
                                                  !.touch[m.tk.guard].st = "failed",
                                                  !.results[m.tk.guard] = None]))}

\* ---------------------------------------------------------------------- Run
\* the task is at an await point (or has returned): its step ends
Awaits(m) == m.tk.pc \in {"unref", "tor_lock", "sfk_join", "done", "panicked"}

\* the code from where the task stands to its next await point
RunStep(m) ==
    CASE m.tk.pc = "ins_put" -> inner_insert_many(m)
      [] m.tk.pc = "evict_begin" -> evict_items(m)
      [] m.tk.pc = "evict_loop" -> evict_items_loop(m)
      [] m.tk.pc = "sfk_rm" -> sizes_remove(m)

RECURSIVE Run(_)
Run(m) == IF Awaits(m) THEN {m} ELSE UNION {Run(n) : n \in RunStep(m)}

\* a call starts: the task has the lock and runs to its first await point
Start(t, tk) == Run(Locked(t, tk))

\* ----------------------------------------------------------------- Init
InitWith(policy) ==
    /\ cfg = policy
    /\ wall = Born
    /\ anchor_time = Born
    /\ lru = <<>>
    /\ sum_store_size = 0
    /\ metrics = [evicted_bytes |-> 0, evicted_items |-> 0, replaced_bytes |-> 0,
                  replaced_items |-> 0, removed_bytes |-> 0, removed_items |-> 0]
    /\ unrefs = <<>>
    /\ lock = NoTask
    /\ task = [t \in Tasks |-> IdleTask]
    /\ index = NoIndex
    /\ overflow_checks = "either"

Init == InitWith(BytesPolicy)
InitCount == InitWith(CountPolicy)
InitTight == InitWith(TightPolicy)
InitAge == InitWith(AgePolicy)
InitNoLimits == InitWith(NoLimits)
InitMixed == InitWith(MixedPolicy)
InitWide == InitWith(WidePolicy)

Fixed == UNCHANGED <<cfg, wall>>

\* the clock advances on its own
Tick ==
    /\ ~Returning
    /\ wall < ClockLimit
    /\ wall' = wall + 1
    /\ UNCHANGED <<cfg, anchor_time, lru, sum_store_size, metrics, unrefs, lock, task, index,
                   overflow_checks>>

\* ------------------------------------------------------------ the operations
\* the handles a caller makes for a call: fresh ids, the given sizes
NewHandles(sizes) == [i \in 1..Len(sizes) |-> [id |-> Len(unrefs) + i, len |-> sizes[i]]]
Created(m, sizes) == [m EXCEPT !.unrefs = @ \o [i \in 1..Len(sizes) |-> 0]]

InsertCall(t, op, keys, sizes, seconds_since_anchor) ==
    [IdleTask EXCEPT !.pc = "ins_put", !.op = op, !.age = seconds_since_anchor,
                     !.at = 1, !.was = lru,
                     !.items = [i \in 1..Len(keys) |->
                                  [key |-> keys[i], h |-> NewHandles(sizes)[i]]]]

\* insert: `self.anchor_time.elapsed()` was read at read_at, before the wait
\* for the lock inside insert_with_time
insert(t, k, n, read_at) ==
    /\ CanCall(t) /\ lock = NoTask
    /\ Len(unrefs) < HandleLimit
    /\ \E m \in Run(Created(Locked(t, InsertCall(t, "insert", <<k>>, <<n>>, read_at)),
                            <<n>>)) : Commit(m)
    /\ Fixed

\* insert_with_time: lock, then inner_insert_many of the one pair
insert_with_time(t, k, n, seconds_since_anchor) ==
    /\ CanCall(t) /\ lock = NoTask
    /\ Len(unrefs) < HandleLimit
    /\ \E m \in Run(Created(Locked(t, InsertCall(t, "insert_with_time", <<k>>, <<n>>,
                                                    seconds_since_anchor)),
                            <<n>>)) : Commit(m)
    /\ Fixed

\* insert_many: nothing to do (and no lock) for no pairs; else the lock, then
\* the clock, then inner_insert_many
insert_many(t, keys, sizes) ==
    /\ CanCall(t)
    /\ Len(unrefs) + Len(keys) <= HandleLimit
    /\ IF keys = <<>>
       THEN Commit(Enter(t, Done([IdleTask EXCEPT !.op = "insert_many"])))
       ELSE /\ lock = NoTask
            /\ \E m \in Run(Created(Locked(t, InsertCall(t, "insert_many", keys, sizes,
                                                          elapsed_secs)),
                                    sizes)) : Commit(m)
    /\ Fixed

\* get: lock, evict_items, the lookup
get(t, k) ==
    /\ CanCall(t) /\ lock = NoTask
    /\ \E m \in Start(t, [IdleTask EXCEPT !.pc = "evict_begin", !.op = "get", !.key = k]) :
         Commit(m)
    /\ Fixed

\* touch_or_remove of get after a failed touch: lock, `pop_entry(digest)?`, State::remove
touch_or_remove(t) ==
    LET m == [Cur(t) EXCEPT !.lock = t]
        i == IndexOf(lru, task[t].key)
    IN  /\ ~Returning
        /\ task[t].pc = "tor_lock"
        /\ lock = NoTask
        /\ \E n \in (IF i = 0 THEN {Release(m, Done(m.tk))}
                     ELSE StateRemove([m EXCEPT !.lru = Without(lru, i)], lru[i], FALSE,
                                      "ret_none")) : Commit(n)
        /\ Fixed

\* remove: lock, inner_remove
remove(t, k) ==
    /\ CanCall(t) /\ lock = NoTask
    /\ \E m \in Start(t, [IdleTask EXCEPT !.pc = "evict_begin", !.op = "remove", !.key = k]) :
         Commit(m)
    /\ Fixed

\* the predicates callers pass to remove_if
Conds == {"always", "is_small"}
CondHolds(cond, data) == IF cond = "is_small" THEN data.len <= 50 ELSE TRUE

\* remove_if: lock, `state.lru.get(digest)`, `cond(&entry.data)`, inner_remove
remove_if(t, k, cond) ==
    LET i == IndexOf(lru, k)
        tk == [IdleTask EXCEPT !.op = "remove_if", !.key = k, !.cond = cond,
                               !.found = IF i = 0 THEN NoItem ELSE lru[i]]
        m == [Enter(t, tk) EXCEPT !.lru = Promote(lru, i)]
    IN  /\ CanCall(t) /\ lock = NoTask
        /\ \E n \in (IF i = 0 THEN {Enter(t, Done(tk))}
                     ELSE IF ~CondHolds(cond, lru[i].data) THEN {[m EXCEPT !.tk = Done(tk)]}
                     ELSE Run([m EXCEPT !.lock = t, !.tk.pc = "evict_begin"])) :
             Commit(n)
        /\ Fixed

\* the touches of one call that return false
Failing(pending) == {f \in SUBSET pending : Cardinality(f) <= MaxFailing}

\* sizes_for_keys up to the first await of its join!: lock, classify every
\* digest, the touch futures up to the result of `data.touch().await`, and the
\* removal block
SizesStart(t, op, digests, results) ==
    /\ CanCall(t) /\ lock = NoTask
    /\ \E b \in Builds(overflow_checks) :
         LET c == Classify(digests, 1,
                           [lru |-> lru, lru_len |-> Len(lru),
                            sum_store_size |-> sum_store_size, rm |-> <<>>,
                            touch |-> <<>>, overflowed |-> FALSE, panicked |-> FALSE],
                           b = "on")
             m == [Enter(t, IdleTask) EXCEPT
                     !.lru = c.lru,
                     !.overflow_checks = IF c.overflowed THEN b ELSE @]
         IN  IF c.panicked
             THEN Commit([m EXCEPT !.tk = Panicked([IdleTask EXCEPT !.op = op])])
             ELSE \E fails \in Failing({i \in DOMAIN c.touch : c.touch[i].st = "pending"}) :
                    \E n \in Run([m EXCEPT
                           !.lock = t,
                           !.tk = [IdleTask EXCEPT
                              !.pc = "sfk_rm", !.op = op, !.digests = digests, !.rm = c.rm,
                              !.touch = [i \in DOMAIN c.touch |->
                                           IF c.touch[i].st = "skip" THEN c.touch[i]
                                           ELSE [c.touch[i] EXCEPT
                                                   !.st = IF i \in fails THEN "wait" ELSE "ok"]],
                              !.results = [i \in DOMAIN results |->
                                             IF c.touch[i].st = "pending" /\ i \notin fails
                                             THEN c.touch[i].data.len
                                             ELSE results[i]]]]) : Commit(n)
    /\ Fixed

sizes_for_keys(t, digests, results) == SizesStart(t, "sizes_for_keys", digests, results)

\* size_for_key: sizes_for_keys(&[*digest], &mut [None]), then results[0]
size_for_key(t, digest) == SizesStart(t, "size_for_key", <<digest>>, <<None>>)

\* one touch future after a failed touch: lock, `pop_entry(digest)?`, State::remove
sizes_touch_or_remove(t, i) ==
    LET tk == task[t]
        j == IndexOf(lru, tk.digests[i])
        m == Cur(t)
    IN  /\ ~Returning
        /\ tk.pc = "sfk_join"
        /\ i \in DOMAIN tk.touch
        /\ tk.touch[i].st = "wait"
        /\ lock = NoTask
        /\ \E n \in (IF j = 0
                     THEN {SizesJoined([m EXCEPT !.tk.touch[i].st = "failed",
                                                 !.tk.results[i] = None])}
                     ELSE StateRemove([m EXCEPT !.lock = t, !.lru = Without(lru, j),
                                                !.tk.guard = i],
                                      lru[j], FALSE, "sfk_tor")) : Commit(n)
        /\ Fixed

build_lru_index(t) ==
    /\ CanCall(t) /\ lock = NoTask
    /\ \E m \in Start(t, [IdleTask EXCEPT !.pc = "evict_begin", !.op = "build_lru_index"]) :
         Commit(m)
    /\ Fixed

\* entry builders: the size of the handle built for a digest
Builders == {[k \in Keys |-> n] : n \in Lens}

\* snapshots handed to restore_lru besides the one build_lru_index returned
RECURSIVE Perms(_)
Perms(S) == IF S = {} THEN {<<>>}
            ELSE UNION {{<<k>> \o p : p \in Perms(S \ {k})} : k \in S}
FewKeyPerms == UNION {Perms(S) : S \in SUBSET FewKeys}
MoreKeyPerms == UNION {Perms(S) : S \in SUBSET MoreKeys}
KeyPerms == IF max_count # 0 THEN MoreKeyPerms ELSE FewKeyPerms
Snapshots ==
    {[data |-> [i \in 1..Len(p) |-> [key |-> p[i], seconds_since_anchor |-> a]],
      anchor_time |-> 0] : p \in KeyPerms, a \in Ages}
\* the snapshot the owner holds, if any
Held == {index} \ {NoIndex}

\* the loop of restore_lru: `state.lru.put(digest, EvictionItem {..})` per pair
RECURSIVE Refill(_, _, _, _)
Refill(l, data, builder, next_id) ==
    IF data = <<>> THEN l
    ELSE Refill(Put(l, [key |-> Head(data).key,
                        seconds_since_anchor |-> Head(data).seconds_since_anchor,
                        data |-> [id |-> next_id, len |-> builder[Head(data).key]],
                        origin |-> IF max_seconds = 0 THEN "-" ELSE "explicit",
                        used |-> FALSE]),
                Tail(data), builder, next_id + 1)

\* restore_lru: lock, the new anchor, clear, refill, evict_items (which reads
\* the clock against the new anchor)
restore_lru(t, seiralized_lru, entry_builder) ==
    /\ CanCall(t) /\ lock = NoTask
    /\ Len(unrefs) + Len(seiralized_lru.data) <= HandleLimit
    /\ from_secs(seiralized_lru.anchor_time) <= wall
    /\ \E m \in Run([Locked(t, [IdleTask EXCEPT !.pc = "evict_begin", !.op = "restore_lru",
                                                 !.snap = seiralized_lru,
                                                 !.builder = entry_builder,
                                                 !.held = index, !.was = lru])
                       EXCEPT !.anchor_time = from_secs(seiralized_lru.anchor_time),
                              !.lru = Refill(<<>>, seiralized_lru.data, entry_builder,
                                             Len(unrefs) + 1),
                              !.unrefs = @ \o [i \in 1..Len(seiralized_lru.data) |-> 0]]) :
         Commit(m)
    /\ Fixed

\* `eviction_item.data.unref().await` returns
unref_done(t) ==
    /\ ~Returning
    /\ task[t].pc = "unref"
    /\ lock = t
    /\ \E m \in UNION {Run(n) : n \in AfterUnref(Cur(t))} : Commit(m)
    /\ Fixed

\* the caller takes the result (or the panic) and is free to call again
Return(t) ==
    /\ task[t].pc \in {"done", "panicked"}
    /\ task' = [task EXCEPT ![t] = IdleTask]
    /\ UNCHANGED <<anchor_time, lru, sum_store_size, metrics, unrefs, lock, index,
                   overflow_checks>>
    /\ Fixed

\* ---------------------------------------------------------------------- Next
KeyLists(n) == UNION {[1..m -> Keys] : m \in 0..n}

\* the operations on &self
Call(t) ==
    \/ \E k \in Keys, n \in Lens, read_at \in 0..elapsed_secs : insert(t, k, n, read_at)
    \/ \E k \in Keys, n \in Lens, a \in Ages : insert_with_time(t, k, n, a)
    \/ \E keys \in KeyLists(MaxBatch), n \in Lens :
         insert_many(t, keys, [i \in DOMAIN keys |-> n])
    \/ \E k \in Keys : get(t, k)
    \/ \E k \in Keys : remove(t, k)
    \/ \E k \in Keys, c \in Conds : remove_if(t, k, c)
    \/ \E k \in Keys : size_for_key(t, k)
    \/ \E digests \in [1..MaxDigests -> Keys] :
         sizes_for_keys(t, digests, [i \in DOMAIN digests |-> Stale])
    \/ build_lru_index(t)

\* the awaits of a running call that return
Step(t) ==
    \/ unref_done(t)
    \/ touch_or_remove(t)
    \/ \E i \in 1..MaxDigests : sizes_touch_or_remove(t, i)

\* The map is shared (an Arc<EvictingMap>): the tasks call the operations on
\* &self concurrently.
Next ==
    \/ \E t \in Tasks : Return(t)
    \/ Tick
    \/ \E t \in Tasks : Call(t)
    \/ \E t \in Tasks : Step(t)

\* The map has one owner, who calls it through &mut: every operation, one
\* call at a time, restore_lru among them.
Owner == "t1"
NextOwned ==
    \/ Return(Owner)
    \/ Tick
    \/ Call(Owner)
    \/ \E s \in Snapshots \cup Held, b \in Builders : restore_lru(Owner, s, b)
    \/ Step(Owner)

Spec == Init /\ [][Next]_vars
SpecOwned == Init /\ [][NextOwned]_vars
SpecOwnedTight == InitTight /\ [][NextOwned]_vars
SpecOwnedCount == InitCount /\ [][NextOwned]_vars
SpecOwnedAge == InitAge /\ [][NextOwned]_vars
SpecOwnedMixed == InitMixed /\ [][NextOwned]_vars
SpecOwnedWide == InitWide /\ [][NextOwned]_vars

\* Scheduling: every unref() completes and every result is taken (the awaits
\* return); async_lock's Mutex hands the lock to a waiter that has starved, so
\* a task that waits for the lock with a failed touch() gets it when it is
\* free again and again.  (An await that returns waits, in this model, for a
\* finished call of another task to hand over its result: hence SF.)
Fairness ==
    /\ \A t \in Tasks : SF_vars(unref_done(t))
    /\ \A t \in Tasks : WF_vars(Return(t))
    /\ \A t \in Tasks : SF_vars(touch_or_remove(t))
    /\ \A t \in Tasks, i \in 1..MaxDigests : SF_vars(sizes_touch_or_remove(t, i))
\* the calls that contend for the lock with a sizes_for_keys call
CallContending(t) ==
    \/ \E k \in Keys, n \in Lens : insert(t, k, n, elapsed_secs)
    \/ \E k \in Keys : get(t, k)
    \/ \E k \in Keys : size_for_key(t, k)
    \/ \E digests \in [1..MaxDigests -> Keys] :
         sizes_for_keys(t, digests, [i \in DOMAIN digests |-> Stale])
NextContending ==
    \/ \E t \in Tasks : Return(t)
    \/ Tick
    \/ \E t \in Tasks : CallContending(t)
    \/ \E t \in Tasks : Step(t)
SpecFair == InitNoLimits /\ [][NextContending]_vars /\ Fairness

\* ------------------------------------------------------------------- claims
InsertOps == {"insert", "insert_with_time", "insert_many"}
Quiet == \A t \in Tasks : Idle(t)
InMap(id) == \E i \in DOMAIN lru : lru[i].data.id = id
KeysOf(l) == [i \in DOMAIN l |-> l[i].key]
FirstN(l, n) == SubSeq(l, 1, IF Len(l) < n THEN Len(l) ELSE n)

RECURSIVE SumLen(_)
SumLen(l) == IF l = <<>> THEN 0 ELSE Head(l).data.len + SumLen(Tail(l))

\* C1: under insert, insert_with_time, insert_many, get, size_for_key,
\* sizes_for_keys, remove and remove_if, in any interleaving and with the
\* evictions, replacements and touch-failure removals they trigger: whenever
\* the map lock is free, sum_store_size is the sum of len() over the entries
\* in the map.
C1_SumMatchesEntries == lock = NoTask => sum_store_size = SumLen(lru)

\* the lock is free, an entry is in the map and another has left it
C1_Witness ==
    /\ lock = NoTask
    /\ lru # <<>>
    /\ metrics.replaced_items + metrics.evicted_items > 0

\* C2: every handle that has left the map (evicted, removed, replaced, cleaned
\* up after a failed touch, or cleared by restore_lru) has had unref() invoked
\* exactly once, and no handle that is in the map has had it invoked; stated
\* of the states in which no call is running and none has panicked.
C2_UnrefOncePerDeparture ==
    (Quiet /\ overflow_checks # "on") =>
       \A id \in DOMAIN unrefs : unrefs[id] = (IF InMap(id) THEN 0 ELSE 1)

\* C3: while a task's unref() is in flight that task holds the map lock, and a
\* step that changes the map or the lock is that task's own: no other task
\* adds or removes an entry before the unref() has completed.
C3_UnrefUnderLock ==
    [][\A t \in Tasks :
         task[t].pc = "unref" =>
           /\ lock = t
           /\ (lru' # lru \/ lock' # lock) =>
                 /\ task'[t] # task[t]
                 /\ \A u \in Tasks \ {t} : task'[u] = task[u]]_vars

\* an unref() is in flight while another task waits for the lock
C3_Witness ==
    \E t \in Tasks, u \in Tasks :
       /\ t # u
       /\ task[t].pc = "unref"
       /\ task[u].pc \in {"tor_lock", "sfk_join"}

\* C4: with max_bytes = B and evict_bytes = E, 0 < E < B, no other limit: when
\* an insert has returned the aggregate is <= B, and if the insert brought the
\* aggregate to B or past it, the aggregate is <= B - E or the map is empty.
\* With B = 100, E = 20: inserting B(50) into a map that holds just A(60)
\* leaves only B.
C4_BytesHysteresis ==
    \A t \in Tasks :
       (task[t].pc = "done" /\ task[t].op \in InsertOps) =>
          /\ sum_store_size <= max_bytes
          /\ task[t].peak >= max_bytes =>
                (sum_store_size <= max_bytes - evict_bytes \/ lru = <<>>)
          /\ ( /\ max_bytes = 100 /\ evict_bytes = 20
               /\ Len(task[t].was) = 1
               /\ task[t].was[1].key = "A" /\ task[t].was[1].data.len = 60
               /\ Len(task[t].items) = 1
               /\ task[t].items[1].key = "B" /\ task[t].items[1].h.len = 50 ) =>
                ( /\ Len(lru) = 1
                  /\ lru[1].key = "B" /\ lru[1].data.len = 50
                  /\ sum_store_size = 50 )

\* insert(B, 50) has returned, called on a map holding just A(60)
C4_Witness ==
    \E t \in Tasks :
       /\ task[t].pc = "done" /\ task[t].op = "insert"
       /\ Len(task[t].was) = 1
       /\ task[t].was[1].key = "A" /\ task[t].was[1].data.len = 60
       /\ task[t].items[1].key = "B" /\ task[t].items[1].h.len = 50
       /\ task[t].peak = 110
       /\ unrefs[task[t].was[1].data.id] = 1

\* C5: with max_count = N, N # 0: when a public operation has returned the map
\* holds at most N entries, and after an insert of one pair these are the N
\* most recently used of the new pair and the entries the insert found.
C5_CountLimit ==
    \A t \in Tasks :
       task[t].pc = "done" =>
          /\ Len(lru) <= max_count
          /\ task[t].op \in {"insert", "insert_with_time"} =>
                LET k == task[t].items[1].key
                    i == IndexOf(task[t].was, k)
                    rest == IF i = 0 THEN task[t].was ELSE Without(task[t].was, i)
                IN  KeysOf(lru) = FirstN(<<k>> \o KeysOf(rest), max_count)

\* C6: with max_seconds = S: an entry that insert() stored with the clock
\* reading of the moment and that no lookup has hit since is not evicted by
\* the policy while elapsed <= t + S, and get does not return it once
\* elapsed > t + S, whatever was done with other keys.
C6_AgeWindow ==
    \A t \in Tasks :
       /\ ( /\ task[t].pc = "unref" /\ task[t].ret = "evict"
            /\ task[t].unref.origin = "exact" /\ ~task[t].unref.used ) =>
             elapsed_secs > task[t].unref.seconds_since_anchor + max_seconds
       /\ ( /\ task[t].pc = "done" /\ task[t].op = "get" /\ task[t].out # NoHandle
            /\ task[t].found.origin = "exact" /\ ~task[t].found.used ) =>
             elapsed_secs <= task[t].found.seconds_since_anchor + max_seconds

\* C7: restore_lru of the snapshot build_lru_index just returned, with a
\* builder that makes handles of the same sizes, leaves the map with the same
\* keys in the same recency order with the same ages, and a second
\* build_lru_index would return the same snapshot.
C7_RoundTrip ==
    \A t \in Tasks :
       ( /\ task[t].pc = "done" /\ task[t].op = "restore_lru"
         /\ task[t].snap = task[t].held
         /\ task[t].snap.data = SerializeLru(task[t].was)
         /\ \A i \in DOMAIN task[t].was :
               task[t].builder[task[t].was[i].key] = task[t].was[i].data.len ) =>
          /\ SerializeLru(lru) = task[t].snap.data
          /\ unix_timestamp(anchor_time) = task[t].snap.anchor_time

\* C8: when get(k) has cloned h and released the lock, k's entry is replaced,
\* and touch(h) then returns false, the cleanup of get unrefs nothing but h:
\* it does not pop or unref the new entry of k.
C8_GetCleanupSparesReplacement ==
    \A t \in Tasks :
       (task[t].op = "get" /\ task[t].pc = "unref" /\ task[t].ret = "ret_none") =>
          task[t].unref.data = task[t].data

\* C9: when sizes_for_keys(digests, results) has returned, results[i] is
\* Some(len) if digests[i] was in the map, the policy kept it and its touch()
\* returned true, and None otherwise, whatever results[i] held before.
C9_ResultsFilled ==
    \A t \in Tasks :
       (task[t].pc = "done" /\ task[t].op = "sizes_for_keys") =>
          \A i \in DOMAIN task[t].digests :
             task[t].results[i] = (IF task[t].touch[i].st = "ok"
                                   THEN task[t].touch[i].data.len
                                   ELSE None)

\* C10: a departure is counted in one counter pair, by its cause: an explicit
\* remove or remove_if in removed_*, a replacement by insert in replaced_*, a
\* policy eviction in evicted_*; the other two pairs stay as they are.
C10_CountersByCause ==
    [][\A t \in Tasks :
         (task'[t].pc = "unref" /\ task'[t] # task[t]) =>
            LET n == task'[t].unref.data.len
                cause == CASE task'[t].ret = "ret_true" -> "removed"
                           [] task'[t].ret = "ins_added" -> "replaced"
                           [] task'[t].ret \in {"evict", "sfk_rm"} -> "evicted"
                           [] OTHER -> "cleanup"
                Bump(c, items, bytes) ==
                    IF cause = c
                    THEN metrics'[items] = metrics[items] + 1
                         /\ metrics'[bytes] = metrics[bytes] + n
                    ELSE metrics'[items] = metrics[items]
                         /\ metrics'[bytes] = metrics[bytes]
            IN  cause # "cleanup" =>
                   /\ Bump("removed", "removed_items", "removed_bytes")
                   /\ Bump("replaced", "replaced_items", "replaced_bytes")
                   /\ Bump("evicted", "evicted_items", "evicted_bytes")]_vars

\* C11: a remove_if(k, cond) that finds k with an entry that does not satisfy
\* cond returns false and changes nothing: the entries and their recency
\* order, sum_store_size, the counters and the unref() counts are as before
\* the call.
C11_RemoveIfFalseIsNoop ==
    [][\A t \in Tasks :
         ( /\ task[t].pc = "idle" /\ task'[t].pc = "done"
           /\ task'[t].op = "remove_if"
           /\ task'[t].found # NoItem
           /\ ~CondHolds(task'[t].cond, task'[t].found.data) ) =>
            /\ task'[t].ret_bool = FALSE
            /\ lru' = lru
            /\ sum_store_size' = sum_store_size
            /\ metrics' = metrics
            /\ unrefs' = unrefs]_vars

\* C12: a get(k) that returns an entry moves k's entry, age and handle as
\* they were, to the most-recent end and leaves the order of the others; the
\* count limit then evicts from the least-recent end: an insert of one pair
\* leaves the max_count most recently used of the new pair and the entries it
\* found.  With max_count = 2: insert A, insert B, get(A), insert C leaves
\* [C, A].
C12_GetPromotes ==
    [][\A t \in Tasks :
         /\ ( /\ task[t].pc = "idle" /\ task'[t].pc = "done"
              /\ task'[t].op = "get" /\ task'[t].out # NoHandle ) =>
               LET i == IndexOf(lru, task'[t].key)
               IN  /\ i # 0
                   /\ task'[t].out = lru[i].data
                   /\ lru' = <<lru[i]>> \o Without(lru, i)
         /\ ( /\ task[t].pc = "done" /\ task[t].op = "insert"
              /\ Len(task[t].was) <= max_count ) =>
               LET k == task[t].items[1].key
                   i == IndexOf(task[t].was, k)
                   rest == IF i = 0 THEN task[t].was ELSE Without(task[t].was, i)
               IN  KeysOf(lru) = FirstN(<<k>> \o KeysOf(rest), max_count)]_vars

\* insert(C) has returned, called on a map where A, inserted before B, was the
\* more recently used of the two: B was evicted, [C, A] is left
C12_Witness ==
    \E t \in Tasks :
       /\ task[t].pc = "done" /\ task[t].op = "insert"
       /\ task[t].items[1].key = "C"
       /\ KeysOf(task[t].was) = <<"A", "B">>
       /\ task[t].was[1].data.id < task[t].was[2].data.id
       /\ KeysOf(lru) = <<"C", "A">>
       /\ lru[2] = task[t].was[1]
       /\ unrefs[task[t].was[2].data.id] = 1

SizesOps == {"sizes_for_keys", "size_for_key"}
Running(t) == task[t].pc \notin {"idle", "done", "panicked"}

\* C13 (as stated): a running sizes_for_keys holds the map lock from its
\* first acquisition until it returns, so also while one of its touch()
\* calls is pending.
C13_LockHeldWholeCall ==
    \A t \in Tasks :
       (task[t].op \in SizesOps /\ Running(t)) => lock = t

\* C13 (amended): a running sizes_for_keys holds the map lock until the
\* removal block of its join! has ended; from then on it holds the lock only
\* while the cleanup of one failed touch() runs, and not while it waits for
\* the lock with a failed touch().
C13_LockHeldThroughRemovals ==
    \A t \in Tasks :
       (task[t].op \in SizesOps /\ Running(t)) =>
          /\ task[t].guard # -1 => lock = t
          /\ task[t].pc = "sfk_join" => (task[t].guard = -1 /\ lock # t)

\* a sizes_for_keys whose touch() failed waits while another task has the lock
C13_Witness ==
    \E t \in Tasks, u \in Tasks :
       /\ t # u
       /\ task[t].op \in SizesOps /\ task[t].pc = "sfk_join"
       /\ \E i \in DOMAIN task[t].touch : task[t].touch[i].st = "wait"
       /\ lock = u

\* C14: under fair scheduling every sizes_for_keys (and size_for_key) call
\* returns, also when a touch() of a kept key returned false and its cleanup
\* has to take the lock the call took at its start.
C14_SizesReturns ==
    \A t \in Tasks :
       (task[t].op \in SizesOps /\ Running(t)) ~> (task[t].pc = "done")

\* a sizes_for_keys call has returned after the cleanup of a failed touch()
C14_Witness ==
    \E t \in Tasks :
       /\ task[t].op \in SizesOps /\ task[t].pc = "done"
       /\ \E i \in DOMAIN task[t].touch :
             /\ task[t].touch[i].st = "failed"
             /\ unrefs[task[t].touch[i].data.id] = 1

\* C15: an eviction pass of an insert that starts with sum_store_size below
\* max_bytes evicts an entry only while the map is over max_count or the
\* least-recent entry is over age: never because sum_store_size is at or over
\* max_bytes - evict_bytes.
C15_LoweredBudgetOnlyOnBreach ==
    \A t \in Tasks :
       ( /\ task[t].pc = "unref" /\ task[t].ret = "evict"
         /\ task[t].op \in InsertOps
         /\ task[t].peak >= 0 /\ task[t].peak < max_bytes ) =>
          \/ max_count # 0 /\ Len(lru) + 1 > max_count
          \/ max_seconds # 0
               /\ task[t].unref.seconds_since_anchor < elapsed_secs - max_seconds

OverAge(e) == max_seconds # 0 /\ e.seconds_since_anchor < elapsed_secs - max_seconds

\* C16: no step of a sizes_for_keys (or size_for_key) call removes or changes
\* an entry whose key is not among its digests, whether or not the map is
\* over a limit: such an entry is in the map after the step as it was before.
\* (Stated of the calls that do not panic while they classify their digests.)
C16_SizesSparesOtherKeys ==
    [][\A t \in Tasks :
         LET tk == IF Running(t) THEN task[t] ELSE task'[t]
         IN  ( /\ task'[t] # task[t]
               /\ task[t].pc \notin {"done", "panicked"}
               /\ tk.op \in SizesOps /\ tk.pc # "panicked" ) =>
                \A i \in DOMAIN lru :
                   lru[i].key \notin {tk.digests[d] : d \in DOMAIN tk.digests} =>
                      \E j \in DOMAIN lru' : lru'[j] = lru[i]]_vars

\* a sizes_for_keys call is removing an entry the policy marked, while an
\* over-age entry whose key is not among its digests stays in the map
C16_Witness ==
    \E t \in Tasks :
       /\ task[t].op \in SizesOps
       /\ task[t].pc = "unref" /\ task[t].ret = "sfk_rm"
       /\ \E i \in DOMAIN lru :
             /\ lru[i].key \notin {task[t].digests[d] : d \in DOMAIN task[t].digests}
             /\ OverAge(lru[i])

\* C17: when restore_lru has returned, sum_store_size is the sum of len()
\* over the entries in the map; and its eviction pass never takes more from
\* sum_store_size than it holds (no panic, no wrapped value).
C17_RestoreRecountsSum ==
    \A t \in Tasks :
       task[t].op = "restore_lru" =>
          /\ task[t].pc = "done" => sum_store_size = SumLen(lru)
          /\ task[t].pc # "panicked"
          /\ sum_store_size >= 0

\* C18: with max_seconds # 0, the entry a get returns is not older than the
\* cutoff elapsed - max_seconds at the time of the call, wherever it stood in
\* the recency order.
C18_GetNeverReturnsOverAge ==
    \A t \in Tasks :
       ( /\ task[t].pc = "done" /\ task[t].op = "get"
         /\ task[t].out # NoHandle /\ max_seconds # 0 ) =>
          ~(task[t].found.seconds_since_anchor < elapsed_secs - max_seconds)

\* C19: with only the byte limit set, when insert(k, v) has returned and
\* len(v) < max_bytes, k is in the map, mapped to v: the eviction pass of the
\* insert has not evicted the entry it inserted.
C19_InsertKeepsNewEntry ==
    \A t \in Tasks :
       ( /\ task[t].pc = "done" /\ task[t].op = "insert"
         /\ max_bytes > 0 /\ evict_bytes < max_bytes
         /\ max_seconds = 0 /\ max_count = 0
         /\ task[t].items[1].h.len < max_bytes ) =>
          \E i \in DOMAIN lru :
             lru[i].key = task[t].items[1].key /\ lru[i].data = task[t].items[1].h

\* C20: with max_bytes > 0 and evict_bytes >= max_bytes, when an insert has
\* returned sum_store_size is <= max_bytes: a breach is answered with the
\* budget 0, which still evicts.
C20_WideHysteresisEnforced ==
    \A t \in Tasks :
       ( /\ task[t].pc = "done" /\ task[t].op \in InsertOps
         /\ max_bytes > 0 /\ evict_bytes >= max_bytes ) =>
          ~U64Gt(sum_store_size, max_bytes)

\* C21: in sizes_for_keys, called on a map whose sum_store_size is the sum of
\* its entries, the local sum_store_size and the local lru_len, lowered once
\* per digest classified for eviction, do not go below zero, whatever the
\* digests (the same key twice among them): no subtraction panics, none wraps.
C21_LocalCountsStayNonNegative ==
    [][\A t \in Tasks :
         ( /\ task[t].pc = "idle"
           /\ task'[t].op \in SizesOps
           /\ sum_store_size = SumLen(lru) ) =>
            LET c == Classify(task'[t].digests, 1,
                              [lru |-> lru, lru_len |-> Len(lru),
                               sum_store_size |-> sum_store_size, rm |-> <<>>,
                               touch |-> <<>>, overflowed |-> FALSE, panicked |-> FALSE],
                              FALSE)
            IN  /\ task'[t].pc # "panicked"
                /\ c.sum_store_size >= 0
                /\ c.lru_len >= 0]_vars

====
